---- MODULE Spec2Model ----
(***************************************************************************)
(* WeeklySchedule (src/weeksched/schedule.py): a weekly availability       *)
(* window kept as a dense boolean grid, one cell per minute of the week,   *)
(* with a timezone and an optional working-day function.                   *)
(*                                                                         *)
(* The grid of the program is 7 x 24 x 60.  The model keeps the same       *)
(* layout with the three dimensions as named bounds (NumDays, HoursPerDay, *)
(* MinutesPerHour); a day is the flat vector of its DayLen cells, cell     *)
(* (hour, minute) being index hour * MinutesPerHour + minute, which is     *)
(* what reshape(24 * 60) / reshape(24, 60) do in the program.              *)
(***************************************************************************)
EXTENDS Integers, Sequences, FiniteSets, TLC

VARIABLES wins, bufs, ret, steps, clones

vars == <<wins, bufs, ret, steps, clones>>

---------------------------------------------------------------------------
(* Dimensions and bounds *)

NumDays == 2

HoursPerDay == 3

MinutesPerHour == 2

MaxSlots == 2

MaxWindows == 3

MaxSteps == 3

DayLen == HoursPerDay * MinutesPerHour

WeekLen == NumDays * DayLen

Days == 0 .. (NumDays - 1)

Cells == 0 .. (DayLen - 1)

None == "None"

---------------------------------------------------------------------------
(* Python / numpy primitives used by the program *)

\* Python's lexicographic order on (hour, minute) tuples
TupleLT(a, b) == a[1] < b[1] \/ (a[1] = b[1] /\ a[2] < b[2])

TupleLE(a, b) == a = b \/ TupleLT(a, b)

\* a slice bound i of a sequence of length n, as Python normalises it
SliceIdx(i, n) ==
  IF i < 0 THEN (IF i + n < 0 THEN 0 ELSE i + n)
  ELSE (IF i > n THEN n ELSE i)

\* divmod(index, 60)
DivMod(i) == <<i \div MinutesPerHour, i % MinutesPerHour>>

RECURSIVE SortedSeq(_)
\* the elements of a finite set of integers in increasing order
SortedSeq(S) ==
  IF S = {} THEN <<>>
  ELSE LET m == CHOOSE x \in S : \A y \in S : x <= y
       IN <<m>> \o SortedSeq(S \ {m})

ZerosDay == [c \in Cells |-> FALSE]

OnesDay == [c \in Cells |-> TRUE]

\* np.zeros((7, 24, 60), dtype=bool)
ZerosGrid == [d \in Days |-> ZerosDay]

\* np.ones((7, 24, 60), dtype=bool)
OnesGrid == [d \in Days |-> OnesDay]

\* np.all / np.any of one day and of the whole grid
AllDay(v) == \A c \in Cells : v[c]

AnyDay(v) == \E c \in Cells : v[c]

AllGrid(g) == \A d \in Days : AllDay(g[d])

AnyGrid(g) == \E d \in Days : AnyDay(g[d])

---------------------------------------------------------------------------
(* Encoding: compact day schedule -> vector of cells.                      *)
(* A day schedule is [ndim, slots]: ndim is np.array(day_sched).ndim and   *)
(* slots the sequence of its (start, end) pairs (one pair when ndim = 2).  *)

\* the two range assertions and the order assertion of define_slot
SlotAccepted(s, e) ==
  /\ TupleLE(<<0, 0>>, s) /\ TupleLE(s, <<HoursPerDay, 0>>)
  /\ TupleLE(<<0, 0>>, e) /\ TupleLE(e, <<HoursPerDay, 0>>)
  /\ TupleLT(s, e)

StartIdx(s) == s[1] * MinutesPerHour + s[2]

\* SlotCells with the end minute included
SlotCellsClosed(s, e) ==
  {c \in Cells : SliceIdx(StartIdx(s), DayLen) <= c /\ c <= SliceIdx(StartIdx(e), DayLen)}

\* the cells that slots[start_idx:end_idx] = 1 sets
SlotCells(s, e) ==
  {c \in Cells : SliceIdx(StartIdx(s), DayLen) <= c /\ c < SliceIdx(StartIdx(e), DayLen)}

\* to_vector: [err, slots]; err is "none" or the exception raised
to_vector(day_sched) ==
  IF day_sched.ndim \notin {2, 3}
  THEN [err |-> "ValueError", slots |-> ZerosDay]
  ELSE IF \E i \in 1 .. Len(day_sched.slots) :
            ~SlotAccepted(day_sched.slots[i][1], day_sched.slots[i][2])
  THEN [err |-> "AssertionError", slots |-> ZerosDay]
  ELSE LET on == UNION {SlotCells(day_sched.slots[i][1], day_sched.slots[i][2]) :
                          i \in 1 .. Len(day_sched.slots)}
       IN [err |-> "none", slots |-> [c \in Cells |-> c \in on]]

\* the exception the first offending item of the mapping raises ("none" if
\* there is none); items are visited in increasing key order
MatrixErr(ctrl_sched) ==
  LET bad == {d \in DOMAIN ctrl_sched :
                d \notin Days \/ to_vector(ctrl_sched[d]).err # "none"}
  IN IF bad = {} THEN "none"
     ELSE LET d == CHOOSE x \in bad : \A y \in bad : x <= y
          IN IF d \notin Days THEN "AssertionError" ELSE to_vector(ctrl_sched[d]).err

\* to_matrix: [err, grid]
to_matrix(ctrl_sched) ==
  IF MatrixErr(ctrl_sched) # "none"
  THEN [err |-> MatrixErr(ctrl_sched), grid |-> ZerosGrid]
  ELSE [err |-> "none",
        grid |-> [d \in Days |->
                    IF d \in DOMAIN ctrl_sched THEN to_vector(ctrl_sched[d]).slots
                    ELSE ZerosDay]]

---------------------------------------------------------------------------
(* Decoding: grid -> compact mapping *)

FullDay == [ndim |-> 2, slots |-> << <<(<<0, 0>>), (<<HoursPerDay, 0>>)>> >>]

\* slot_indexes without the position 0 put in front of a day that starts true
SlotIndexesNoFront(v) ==
  LET inner == SortedSeq({i \in 1 .. (DayLen - 1) : v[i] # v[i - 1]})
  IN IF v[DayLen - 1] THEN inner \o <<DayLen>> ELSE inner

\* slot_indexes of one day: the positions where a cell differs from its
\* predecessor, with 0 put in front when the day starts true and DayLen
\* appended when it ends true
SlotIndexes(v) ==
  LET inner == SortedSeq({i \in 1 .. (DayLen - 1) : v[i] # v[i - 1]})
      front == IF v[0] THEN <<0>> \o inner ELSE inner
  IN IF v[DayLen - 1] THEN front \o <<DayLen>> ELSE front

\* day_slots: the indexes grouped two by two into (start, end) pairs
DaySlots(v) ==
  LET idx == SlotIndexes(v)
  IN [j \in 1 .. (Len(idx) \div 2) |-> <<DivMod(idx[2 * j - 1]), DivMod(idx[2 * j])>>]

\* the entry of one day that is neither all true nor all false
FormatDay(v) ==
  IF Len(DaySlots(v)) = 1
  THEN [ndim |-> 2, slots |-> DaySlots(v)]
  ELSE [ndim |-> 3, slots |-> DaySlots(v)]

format_schedule(g) ==
  IF AllGrid(g) THEN [d \in Days |-> FullDay]
  ELSE IF ~AnyGrid(g) THEN [d \in {} |-> FullDay]
  ELSE [d \in {x \in Days : AnyDay(g[x])} |->
          IF AllDay(g[d]) THEN FullDay ELSE FormatDay(g[d])]

---------------------------------------------------------------------------
(* Collaborators: the timezone database and the working-day functions *)

\* the identifiers pytz resolves
KnownZones == {"UTC", "Europe/Paris"}

\* pytz.timezone(tz) raises UnknownTimeZoneError unless this holds
Resolvable(tz) == tz \in KnownZones

\* the offset to UTC, in minutes, of a resolved zone (one hour east for
\* Europe/Paris)
UtcOffset(zone) == IF zone = "Europe/Paris" THEN MinutesPerHour ELSE 0

\* Python truthiness of an optional string or callable
Truthy(x) == x # None /\ x # ""

\* A datetime is [utc, off, sec]: the absolute minute of the week it denotes,
\* its own UTC offset in minutes, and its seconds field.
Local(dt) == (dt.utc + dt.off) % WeekLen

Weekday(dt) == Local(dt) \div DayLen

Hour(dt) == (Local(dt) % DayLen) \div MinutesPerHour

Minute(dt) == Local(dt) % MinutesPerHour

\* dt.astimezone(zone): the same instant with the zone's offset
AsTimezone(dt, zone) == [utc |-> dt.utc, off |-> UtcOffset(zone), sec |-> dt.sec]

\* what with_working_days_calendar stores: a callable as it is, a Calendar's
\* bound method is_working_day otherwise
StoredFun(calendar) ==
  IF calendar = "France" THEN "France.is_working_day" ELSE calendar

\* calling the stored working-day function on a datetime; the calendar's last
\* day of the week is not a working day
CallFun(f, dt) ==
  CASE f = "lambda_false" -> FALSE
    [] f = "lambda_true" -> TRUE
    [] OTHER -> Weekday(dt) # NumDays - 1

---------------------------------------------------------------------------
(* State: the windows and the grid buffers they refer to.  wins[w] is      *)
(* [buf, tz, pytz, fun]: _schedule (the index of its buffer in bufs),      *)
(* _timezone, _pytz and _is_working_day_fun.  ret describes the last call: *)
(* the operation, the window it was called on, its arguments, how it ended *)
(* ("ok" or the exception raised) and what it returned.  clones records    *)
(* the pairs <<original, copy>> that clone() produced.                     *)

Windows == 1 .. Len(wins)

Grid(w) == bufs[wins[w].buf]

\* WeeklySchedule.__init__, the buffer being the one at index b
NewWindow(b) == [buf |-> b, tz |-> None, pytz |-> None, fun |-> None]

Ret(op, self, args, status, val) ==
  [op |-> op, self |-> self, args |-> args, status |-> status, val |-> val]

Init ==
  /\ wins = <<>>
  /\ bufs = <<>>
  /\ ret = Ret("none", 0, <<>>, "ok", 0)
  /\ steps = 0
  /\ clones = {}

CanCall == steps < MaxSteps

CanBuild == CanCall /\ Len(wins) < MaxWindows

\* s.for_timezone(tz) applied to a window record: the record afterwards
\* (_timezone is assigned before pytz.timezone(tz) is evaluated)
for_timezone(s, tz) ==
  [s EXCEPT !.tz = tz, !.pytz = IF Resolvable(tz) THEN tz ELSE @]

TzStatus(tz) == IF Resolvable(tz) THEN "ok" ELSE "UnknownTimeZoneError"

\* w.for_timezone(tz)
ForTimezone(w, tz) ==
  /\ CanCall
  /\ wins' = [wins EXCEPT ![w] = for_timezone(@, tz)]
  /\ ret' = Ret("for_timezone", w, <<tz>>, TzStatus(tz), IF Resolvable(tz) THEN w ELSE 0)
  /\ steps' = steps + 1
  /\ UNCHANGED <<bufs, clones>>

\* w.with_working_days_calendar(calendar)
WithWorkingDaysCalendar(w, calendar) ==
  /\ CanCall
  /\ wins' = [wins EXCEPT ![w].fun = StoredFun(calendar)]
  /\ ret' = Ret("with_working_days_calendar", w, <<calendar>>, "ok", w)
  /\ steps' = steps + 1
  /\ UNCHANGED <<bufs, clones>>

\* WeeklySchedule()
Construct ==
  /\ CanBuild
  /\ bufs' = Append(bufs, ZerosGrid)
  /\ wins' = Append(wins, NewWindow(Len(bufs) + 1))
  /\ ret' = Ret("__init__", 0, <<>>, "ok", Len(wins) + 1)
  /\ steps' = steps + 1
  /\ UNCHANGED clones

\* how from_raw(raw_sched, time_zone) ends for a mapping
FromRawStatus(raw_sched, time_zone) ==
  IF DOMAIN raw_sched = {} THEN "AssertionError"
  ELSE IF to_matrix(raw_sched).err # "none" THEN to_matrix(raw_sched).err
  ELSE TzStatus(time_zone)

\* WeeklySchedule.from_raw(raw_sched, time_zone) with a mapping
FromRawDict(raw_sched, time_zone) ==
  /\ CanBuild
  /\ steps' = steps + 1
  /\ UNCHANGED clones
  /\ IF FromRawStatus(raw_sched, time_zone) = "ok"
     THEN /\ bufs' = Append(bufs, to_matrix(raw_sched).grid)
          /\ wins' = Append(wins, for_timezone(NewWindow(Len(bufs) + 1), time_zone))
          /\ ret' = Ret("from_raw", 0, <<raw_sched, time_zone>>, "ok", Len(wins) + 1)
     ELSE /\ UNCHANGED <<wins, bufs>>
          /\ ret' = Ret("from_raw", 0, <<raw_sched, time_zone>>,
                        FromRawStatus(raw_sched, time_zone), 0)

\* WeeklySchedule.from_raw(a, time_zone) with a the array held in buffer b:
\* the new window refers to the array it was given
FromRawArray(b, time_zone) ==
  /\ CanBuild
  /\ steps' = steps + 1
  /\ UNCHANGED <<bufs, clones>>
  /\ IF Resolvable(time_zone)
     THEN /\ wins' = Append(wins, for_timezone(NewWindow(b), time_zone))
          /\ ret' = Ret("from_raw_array", 0, <<b, time_zone>>, "ok", Len(wins) + 1)
     ELSE /\ UNCHANGED wins
          /\ ret' = Ret("from_raw_array", 0, <<b, time_zone>>, "UnknownTimeZoneError", 0)

\* WeeklySchedule.never()
Never ==
  /\ CanBuild
  /\ bufs' = Append(bufs, ZerosGrid)
  /\ wins' = Append(wins, for_timezone(NewWindow(Len(bufs) + 1), "UTC"))
  /\ ret' = Ret("never", 0, <<>>, "ok", Len(wins) + 1)
  /\ steps' = steps + 1
  /\ UNCHANGED clones

\* WeeklySchedule.always()
Always ==
  /\ CanBuild
  /\ bufs' = Append(bufs, OnesGrid)
  /\ wins' = Append(wins, for_timezone(for_timezone(NewWindow(Len(bufs) + 1), "UTC"), "UTC"))
  /\ ret' = Ret("always", 0, <<>>, "ok", Len(wins) + 1)
  /\ steps' = steps + 1
  /\ UNCHANGED clones

\* ~other.schedule
Negated(g) == [d \in Days |-> [c \in Cells |-> ~g[d][c]]]

\* WeeklySchedule.invert(other): from_raw(~other.schedule) builds the window
\* in UTC, then for_timezone(other.timezone) is called on it
Invert(other) ==
  /\ CanBuild
  /\ steps' = steps + 1
  /\ UNCHANGED clones
  /\ IF Resolvable(wins[other].tz)
     THEN /\ bufs' = Append(bufs, Negated(Grid(other)))
          /\ wins' = Append(wins, for_timezone(for_timezone(NewWindow(Len(bufs) + 1), "UTC"),
                                               wins[other].tz))
          /\ ret' = Ret("invert", 0, <<other>>, "ok", Len(wins) + 1)
     ELSE /\ UNCHANGED <<wins, bufs>>
          /\ ret' = Ret("invert", 0, <<other>>, "UnknownTimeZoneError", 0)

\* _set_day_schedule that adds the slots to what the day already holds
set_day_schedule_or(g, day, sched) ==
  IF to_vector(sched).err # "none"
  THEN [err |-> to_vector(sched).err, grid |-> g]
  ELSE [err |-> "none",
        grid |-> [g EXCEPT ![day] = [c \in Cells |-> @[c] \/ to_vector(sched).slots[c]]]]

\* _set_day_schedule(day, sched) on grid g: [err, grid]
set_day_schedule(g, day, sched) ==
  IF to_vector(sched).err # "none"
  THEN [err |-> to_vector(sched).err, grid |-> g]
  ELSE [err |-> "none", grid |-> [g EXCEPT ![day] = to_vector(sched).slots]]

\* WeeklySchedule.from_to(day_start, day_end, day_sched): the days of
\* range(day_start, day_end + 1) are set one after the other
FromToStatus(day_start, day_end, day_sched) ==
  IF day_start <= day_end THEN to_vector(day_sched).err ELSE "none"

FromToGrid(day_start, day_end, day_sched) ==
  [d \in Days |-> IF day_start <= d /\ d <= day_end
                  THEN set_day_schedule(ZerosGrid, d, day_sched).grid[d]
                  ELSE ZerosDay]

FromTo(day_start, day_end, day_sched) ==
  /\ CanBuild
  /\ steps' = steps + 1
  /\ UNCHANGED clones
  /\ IF FromToStatus(day_start, day_end, day_sched) = "none"
     THEN /\ bufs' = Append(bufs, FromToGrid(day_start, day_end, day_sched))
          /\ wins' = Append(wins, NewWindow(Len(bufs) + 1))
          /\ ret' = Ret("from_to", 0, <<day_start, day_end, day_sched>>, "ok", Len(wins) + 1)
     ELSE /\ UNCHANGED <<wins, bufs>>
          /\ ret' = Ret("from_to", 0, <<day_start, day_end, day_sched>>,
                        FromToStatus(day_start, day_end, day_sched), 0)

\* w.monday(day_sched) .. w.sunday(day_sched): the setter of day `day`; args
\* keeps the grid the call found
SetDay(w, day, day_sched) ==
  /\ CanCall
  /\ steps' = steps + 1
  /\ bufs' = [bufs EXCEPT ![wins[w].buf] = set_day_schedule(@, day, day_sched).grid]
  /\ ret' = Ret("set_day", w, <<day, day_sched, Grid(w)>>,
                IF to_vector(day_sched).err = "none" THEN "ok" ELSE to_vector(day_sched).err,
                IF to_vector(day_sched).err = "none" THEN w ELSE 0)
  /\ UNCHANGED <<wins, clones>>

\* np.roll(v, total): the cells pushed past the end come back at the start
ShiftedSlotsRolled(v, total) ==
  [i \in 1 .. DayLen |-> v[(i - 1 - total) % DayLen]]

\* np.concatenate((np.zeros(total), v))[:-total], as a sequence
ShiftedSlots(v, total) ==
  LET cat == [i \in 1 .. (total + DayLen) |-> IF i <= total THEN FALSE ELSE v[i - total - 1]]
  IN SubSeq(cat, 1, SliceIdx(0 - total, Len(cat)))

\* v & shifted of numpy: [err, slots]; operands of lengths DayLen and 0 do
\* not broadcast
AndSlots(v, shifted) ==
  IF Len(shifted) = DayLen
  THEN [err |-> "none", slots |-> [c \in Cells |-> v[c] /\ shifted[c + 1]]]
  ELSE IF Len(shifted) = 1
  THEN [err |-> "none", slots |-> [c \in Cells |-> v[c] /\ shifted[1]]]
  ELSE [err |-> "ValueError", slots |-> v]

\* the body of shift_start on grid g for a total that passed the assertion:
\* every day has the same length, so the first day's `&` fails or none does
shift_days(g, total) ==
  IF AndSlots(g[0], ShiftedSlots(g[0], total)).err # "none"
  THEN [err |-> "ValueError", grid |-> g]
  ELSE [err |-> "none",
        grid |-> [d \in Days |-> AndSlots(g[d], ShiftedSlots(g[d], total)).slots]]

\* shift_start(hours, minutes) on grid g: [err, grid]
shift_start(g, hours, minutes) ==
  LET total_minutes_shift == hours * MinutesPerHour + minutes
  IN IF total_minutes_shift < 0
     THEN [err |-> "AssertionError", grid |-> g]
     ELSE shift_days(g, total_minutes_shift)

\* w.shift_start(hours, minutes): the days are rewritten in the window's
\* buffer; args keeps the grid the call found
ShiftStart(w, hours, minutes) ==
  /\ CanCall
  /\ steps' = steps + 1
  /\ bufs' = [bufs EXCEPT ![wins[w].buf] = shift_start(@, hours, minutes).grid]
  /\ ret' = Ret("shift_start", w, <<hours, minutes, Grid(w)>>,
                IF shift_start(Grid(w), hours, minutes).err = "none" THEN "ok"
                ELSE shift_start(Grid(w), hours, minutes).err,
                IF shift_start(Grid(w), hours, minutes).err = "none" THEN w ELSE 0)
  /\ UNCHANGED <<wins, clones>>

\* how s.clone() ends: pytz.timezone is called again when both _timezone and
\* _pytz are set
CloneStatus(s) ==
  IF Truthy(s.tz) /\ s.pytz # None THEN TzStatus(s.tz) ELSE "ok"

\* the window s.clone() returns, its grid copy being buffer b
clone(s, b) ==
  [buf |-> b,
   tz |-> IF Truthy(s.tz) THEN s.tz ELSE None,
   pytz |-> IF Truthy(s.tz) /\ s.pytz # None THEN s.tz ELSE None,
   fun |-> IF Truthy(s.fun) THEN s.fun ELSE None]

\* w.clone()
Clone(w) ==
  /\ CanBuild
  /\ steps' = steps + 1
  /\ IF CloneStatus(wins[w]) = "ok"
     THEN /\ bufs' = Append(bufs, Grid(w))
          /\ wins' = Append(wins, clone(wins[w], Len(bufs) + 1))
          /\ clones' = clones \cup {<<w, Len(wins) + 1>>}
          /\ ret' = Ret("clone", w, <<>>, "ok", Len(wins) + 1)
     ELSE /\ UNCHANGED <<wins, bufs, clones>>
          /\ ret' = Ret("clone", w, <<>>, CloneStatus(wins[w]), 0)

\* _is_on_weekly_schedule(weekday, hour, minute) on grid g
is_on_weekly_schedule(g, weekday, hour, minute) ==
  g[weekday][hour * MinutesPerHour + minute]

\* is_on_at that never calls the working-day function
is_on_at_ungated(s, g, dt) ==
  [on |-> is_on_weekly_schedule(g, Weekday(dt), Hour(dt), Minute(dt)), read |-> TRUE]

\* is_on_at(dt) on window record s with grid g: [on, read], the answer and
\* whether the grid was looked up
is_on_at(s, g, dt) ==
  IF s.fun # None /\ ~CallFun(s.fun, dt)
  THEN [on |-> FALSE, read |-> FALSE]
  ELSE [on |-> is_on_weekly_schedule(g, Weekday(dt), Hour(dt), Minute(dt)), read |-> TRUE]

\* w.is_on_at(dt)
IsOnAt(w, dt) ==
  /\ CanCall
  /\ steps' = steps + 1
  /\ ret' = Ret("is_on_at", w, <<dt>>, "ok", is_on_at(wins[w], Grid(w), dt))
  /\ UNCHANGED <<wins, bufs, clones>>

\* datetime.now(tz) when the clock reads the absolute minute `now`; without a
\* zone the datetime is naive (the clock's own local time, taken as UTC here)
DatetimeNow(now, zone) ==
  [utc |-> now, off |-> IF zone = None THEN 0 ELSE UtcOffset(zone), sec |-> 0]

\* w.is_on() at clock reading `now`
IsOn(w, now) ==
  /\ CanCall
  /\ steps' = steps + 1
  /\ ret' = Ret("is_on", w, <<DatetimeNow(now, wins[w].pytz)>>, "ok",
                is_on_at(wins[w], Grid(w), DatetimeNow(now, wins[w].pytz)))
  /\ UNCHANGED <<wins, bufs, clones>>

\* w.format_schedule() (the formatted_schedule property): nothing changes
FormatSchedule(w) ==
  /\ CanCall
  /\ steps' = steps + 1
  /\ ret' = Ret("format_schedule", w, <<>>, "ok", format_schedule(Grid(w)))
  /\ UNCHANGED <<wins, bufs, clones>>

\* is_defined_for_day(day) on grid g
is_defined_for_day(g, day) == AnyDay(g[day])

---------------------------------------------------------------------------
(* Inputs *)

Slot(s, e) == <<s, e>>

\* one (start, end) pair, as the tests write ((7, 0), (20, 0))
Day2D(s, e) == [ndim |-> 2, slots |-> <<Slot(s, e)>>]

\* a tuple of (start, end) pairs
Day3D(slots) == [ndim |-> 3, slots |-> slots]

Weekday2D == Day2D(<<1, 0>>, <<HoursPerDay - 1, 0>>)

Night3D == Day3D(<<Slot(<<0, 0>>, <<1, 0>>), Slot(<<HoursPerDay - 1, 0>>, <<HoursPerDay, 0>>)>>)

Morning2D == Day2D(<<0, 1>>, <<1, 1>>)

Reversed2D == Day2D(<<2, 0>>, <<1, 0>>)

SampleDays == {Weekday2D, Night3D, Morning2D, FullDay, Reversed2D}

\* typical_weekly_schedule of the tests: every day but the last
TypicalSchedule == [d \in 0 .. (NumDays - 2) |-> Weekday2D]

\* complex_schedule of the tests: nights, and the whole last day
ComplexSchedule == [d \in Days |-> IF d = NumDays - 1 THEN FullDay ELSE Night3D]

EmptySchedule == [d \in {} |-> FullDay]

SampleSchedules ==
  {TypicalSchedule, ComplexSchedule, EmptySchedule, [d \in {NumDays} |-> FullDay]}

TzInputs == {"UTC", "Europe/Paris", "invalid", ""}

CalendarInputs == {"lambda_false", "lambda_true", "France"}

OffsetInputs == {0, MinutesPerHour, 0 - MinutesPerHour}

Datetimes == [utc : 0 .. (WeekLen - 1), off : OffsetInputs, sec : {0, 59}]

SampleDatetimes ==
  {dt \in Datetimes : dt.sec = 0 /\ dt.utc \in {0, MinutesPerHour, WeekLen - 1}}

ShiftInputs == {<<0, 0>>, <<0, 1>>, <<1, 0>>, <<0, 0 - 1>>, <<HoursPerDay, 0>>}

---------------------------------------------------------------------------
(* The life of the windows: any call on any window, on sample inputs *)

Next ==
  \/ Construct
  \/ Never
  \/ Always
  \/ \E s \in SampleSchedules, tz \in {"UTC", "invalid"} : FromRawDict(s, tz)
  \/ \E b \in 1 .. Len(bufs), tz \in {"UTC", "invalid"} : FromRawArray(b, tz)
  \/ \E w \in Windows : Invert(w)
  \/ \E a \in Days, b \in Days, s \in SampleDays : FromTo(a, b, s)
  \/ \E w \in Windows, d \in Days, s \in SampleDays : SetDay(w, d, s)
  \/ \E w \in Windows, hm \in ShiftInputs : ShiftStart(w, hm[1], hm[2])
  \/ \E w \in Windows, tz \in TzInputs : ForTimezone(w, tz)
  \/ \E w \in Windows, c \in CalendarInputs : WithWorkingDaysCalendar(w, c)
  \/ \E w \in Windows : Clone(w)
  \/ \E w \in Windows, dt \in SampleDatetimes : IsOnAt(w, dt)
  \/ \E w \in Windows, now \in {0, WeekLen - 1} : IsOn(w, now)

Spec == Init /\ [][Next]_vars

---------------------------------------------------------------------------
(* Encoding and decoding on every small compact mapping: from_raw is       *)
(* called once, on a mapping drawn from CompactInputs.                     *)

HourInputs == (0 - 1) .. (HoursPerDay + 1)

MinuteInputs == (0 - (MinutesPerHour + 1)) .. (MinutesPerHour + 1)

\* any (hour, minute) pair a caller may write, in range or not
Endpoints == HourInputs \X MinuteInputs

\* the pairs divmod produces: minute within the hour, up to (HoursPerDay, 0)
CanonEndpoints == {DivMod(i) : i \in 0 .. DayLen}

CanonSlots == {<<s, e>> \in CanonEndpoints \X CanonEndpoints : TupleLT(s, e)}

RECURSIVE SeqsUpTo(_, _)
\* the sequences of 1 to n elements of S
SeqsUpTo(S, n) ==
  IF n = 0 THEN {}
  ELSE {<<x>> : x \in S} \cup {Append(q, x) : q \in SeqsUpTo(S, n - 1), x \in S}

\* the slots of one or two minutes
ShortSlots == {sl \in CanonSlots : StartIdx(sl[2]) - StartIdx(sl[1]) <= 2}

\* the day schedules tried: any pair of endpoints as a single slot, any one
\* or two slots in any order, up to n short slots in any order, and a
\* schedule of the wrong depth
DayInputs(n) ==
  {Day2D(s, e) : s \in Endpoints, e \in Endpoints}
    \cup {Day3D(q) : q \in SeqsUpTo(CanonSlots, 2) \cup SeqsUpTo(ShortSlots, n)}
    \cup {[ndim |-> 1, slots |-> <<>>]}

\* the mappings tried: every day schedule on the first day, the sample days
\* under every key from -1 to NumDays, and the mappings of sample days
CompactInputs(n) ==
  {[d \in {0} |-> s] : s \in DayInputs(n)}
    \cup {[d \in {k} |-> s] : k \in (0 - 1) .. NumDays, s \in SampleDays}
    \cup [Days -> SampleDays \cup {Day3D(<<Slot(<<0, 0>>, <<1, 0>>)>>)}]
    \cup SampleSchedules

NextCodec ==
  /\ steps = 0
  /\ \E s \in CompactInputs(MaxSlots), tz \in {"UTC"} : FromRawDict(s, tz)

SpecCodec == Init /\ [][NextCodec]_vars

---------------------------------------------------------------------------
(* Claims about encoding and decoding (SpecCodec) *)

\* the last call was from_raw on a mapping and it returned a window
FromRawReturned == ret.op = "from_raw" /\ ret.status = "ok"

\* the cells a slot stands for when read as the half-open range of minutes
\* [start.hour * 60 + start.minute, end.hour * 60 + end.minute)
InSlot(c, slot) == StartIdx(slot[1]) <= c /\ c < StartIdx(slot[2])

CoversDay(day_sched) ==
  \A c \in Cells : \E i \in 1 .. Len(day_sched.slots) : InSlot(c, day_sched.slots[i])

\* the canonical writing of a day: the whole day as ((0, 0), (24, 0)), a
\* one-element tuple of slots unwrapped
CanonDay(day_sched) ==
  IF CoversDay(day_sched) THEN FullDay
  ELSE IF Len(day_sched.slots) = 1 THEN [ndim |-> 2, slots |-> day_sched.slots]
  ELSE day_sched

Canon(raw_sched) == [d \in DOMAIN raw_sched |-> CanonDay(raw_sched[d])]

\* the slots of a day are written with minutes inside the hour, in increasing
\* order, and at least one minute lies between a slot and the next
SeparatedDay(day_sched) ==
  /\ \A i \in 1 .. Len(day_sched.slots) :
        /\ day_sched.slots[i][1] \in CanonEndpoints
        /\ day_sched.slots[i][2] \in CanonEndpoints
  /\ \A i \in 1 .. (Len(day_sched.slots) - 1) :
        StartIdx(day_sched.slots[i][2]) < StartIdx(day_sched.slots[i + 1][1])

Separated(raw_sched) == \A d \in DOMAIN raw_sched : SeparatedDay(raw_sched[d])

\* a valid time of day: 0 <= minute <= 59 and 0 <= hour * 60 + minute <= 1440
ValidTime(t) ==
  /\ 0 <= t[2] /\ t[2] <= MinutesPerHour - 1
  /\ 0 <= StartIdx(t) /\ StartIdx(t) <= DayLen

ValidDay(day_sched) ==
  /\ day_sched.ndim \in {2, 3}
  /\ \A i \in 1 .. Len(day_sched.slots) :
        /\ ValidTime(day_sched.slots[i][1])
        /\ ValidTime(day_sched.slots[i][2])
        /\ StartIdx(day_sched.slots[i][1]) < StartIdx(day_sched.slots[i][2])

ValidMapping(raw_sched) ==
  /\ DOMAIN raw_sched # {}
  /\ \A d \in DOMAIN raw_sched : d \in Days /\ ValidDay(raw_sched[d])

\* C1 as stated: for every mapping from_raw accepts, format_schedule of the
\* grid it built is the mapping itself (canonicalised), touching and
\* overlapping slots included.  Stated here on the accepted mappings whose
\* endpoints are valid times of day, where it already fails.
C1_RoundTripAnyAccepted ==
  (FromRawReturned /\ ValidMapping(ret.args[1]))
    => format_schedule(Grid(ret.val)) = Canon(ret.args[1])

\* C1 amended: the round trip holds for every accepted mapping whose days are
\* written with minutes inside the hour and with their slots in increasing
\* order, no two of them touching or overlapping.
C1_RoundTripSeparated ==
  (FromRawReturned /\ Separated(ret.args[1]))
    => format_schedule(Grid(ret.val)) = Canon(ret.args[1])

\* C1 witness: an accepted mapping with a day of two separated slots came back
\* unchanged.
C1_Witness ==
  /\ FromRawReturned
  /\ Separated(ret.args[1])
  /\ \E d \in DOMAIN ret.args[1] :
        /\ ret.args[1][d].ndim = 3
        /\ Len(ret.args[1][d].slots) = 2
        /\ ~CoversDay(ret.args[1][d])
  /\ format_schedule(Grid(ret.val)) = ret.args[1]

\* C5 as stated: without a working-day function, is_on_at(t) on the window
\* built from an accepted mapping is true exactly when t's weekday is a key
\* and t's minute of the day lies in [start, end) of one of that day's slots;
\* the seconds of t do not matter.
C5_HalfOpenMembership ==
  FromRawReturned =>
    \A dt \in Datetimes :
      is_on_at(wins[ret.val], Grid(ret.val), dt).on
        = (/\ Weekday(dt) \in DOMAIN ret.args[1]
           /\ \E i \in 1 .. Len(ret.args[1][Weekday(dt)].slots) :
                 InSlot(Hour(dt) * MinutesPerHour + Minute(dt),
                        ret.args[1][Weekday(dt)].slots[i]))

\* C7 as stated: from_raw returns a window only for a non-empty mapping with
\* keys in 0..6 and slots whose endpoints are valid times of day with start
\* before end, fails on any other mapping, and every accepted slot turns on
\* a non-empty range of cells.
C7_EagerValidation ==
  ret.op = "from_raw" =>
    /\ (ret.status = "ok") = ValidMapping(ret.args[1])
    /\ ret.status = "ok" =>
         \A d \in DOMAIN ret.args[1] : \A i \in 1 .. Len(ret.args[1][d].slots) :
            SlotCells(ret.args[1][d].slots[i][1], ret.args[1][d].slots[i][2]) # {}

---------------------------------------------------------------------------
(* shift_start on every small grid: a window over a grid of ShiftGrids     *)
(* (as from_raw builds from a dense grid) receives one shift_start call.   *)

DayVectors == [Cells -> BOOLEAN]

\* one day is any vector, the other days are all false or all true
ShiftGrids ==
  {[d \in Days |-> IF d = k THEN v ELSE u] :
     k \in Days, v \in DayVectors, u \in {ZerosDay, OnesDay}}

ShiftHours == (0 - 1) .. (HoursPerDay + 1)

ShiftMinutes == (0 - 1) .. MinutesPerHour

InitShift ==
  /\ \E g \in ShiftGrids : bufs = <<g>>
  /\ wins = <<for_timezone(NewWindow(1), "UTC")>>
  /\ ret = Ret("none", 0, <<>>, "ok", 0)
  /\ steps = 0
  /\ clones = {}

NextShift ==
  /\ steps = 0
  /\ \E h \in ShiftHours, m \in ShiftMinutes : ShiftStart(1, h, m)

SpecShift == InitShift /\ [][NextShift]_vars

\* the maximal runs [s, e) of true cells of a day
Runs(v) ==
  {r \in (0 .. (DayLen - 1)) \X (1 .. DayLen) :
     /\ r[1] < r[2]
     /\ \A c \in r[1] .. (r[2] - 1) : v[c]
     /\ (r[1] = 0 \/ ~v[r[1] - 1])
     /\ (r[2] = DayLen \/ ~v[r[2]])}

MinOf(a, b) == IF a <= b THEN a ELSE b

ShiftReturned == ret.op = "shift_start" /\ ret.status = "ok"

ShiftTotal == ret.args[1] * MinutesPerHour + ret.args[2]

\* C3 as stated: shift_start with a total > 0 leaves on, of every run [s, e)
\* of every day, exactly the cells [min(s + total, e), e), however close the
\* run before it is, and leaves every other cell off.
C3_ShiftDelaysEveryStart ==
  (ShiftReturned /\ ShiftTotal > 0) =>
    \A d \in Days : \A c \in Cells :
      Grid(ret.self)[d][c]
        = \E r \in Runs(ret.args[3][d]) : MinOf(r[1] + ShiftTotal, r[2]) <= c /\ c < r[2]

\* C4 as stated: shift_start(0, 0) completes without error, returns the
\* window and leaves every cell unchanged.
C4_ShiftZeroIsIdentity ==
  (ret.op = "shift_start" /\ ret.args[1] = 0 /\ ret.args[2] = 0) =>
    /\ ret.status = "ok"
    /\ ret.val = ret.self
    /\ Grid(ret.self) = ret.args[3]

\* C13: shift_start with a total of a whole day or more completes, returns
\* the window and leaves every day all false, whatever the grid held.
C13_ShiftByDayOrMoreClears ==
  (ret.op = "shift_start" /\ ShiftTotal >= DayLen) =>
    /\ ret.status = "ok"
    /\ ret.val = ret.self
    /\ Grid(ret.self) = ZerosGrid

\* C13 witness: a grid with an all-true day was shifted by exactly one day
\* and every day is all false.
C13_Witness ==
  /\ ShiftReturned
  /\ ShiftTotal = DayLen
  /\ \E d \in Days : AllDay(ret.args[3][d])
  /\ Grid(ret.self) = ZerosGrid

---------------------------------------------------------------------------
(* Point queries: a window is built, may get a working-day function or     *)
(* another timezone, and is asked about any datetime.                      *)

NextQuery ==
  \/ steps = 0 /\ Always
  \/ steps = 0 /\ Never
  \/ steps = 0 /\ Construct
  \/ steps = 0 /\ \E s \in {TypicalSchedule, ComplexSchedule}, tz \in KnownZones :
                    FromRawDict(s, tz)
  \/ steps = 1 /\ \E c \in CalendarInputs : WithWorkingDaysCalendar(1, c)
  \/ steps = 1 /\ \E tz \in KnownZones : ForTimezone(1, tz)
  \/ steps >= 1 /\ ret.op # "is_on_at" /\ \E dt \in Datetimes : IsOnAt(1, dt)

SpecQuery == Init /\ [][NextQuery]_vars

Cell(g, dt) == g[Weekday(dt)][Hour(dt) * MinutesPerHour + Minute(dt)]

\* C2 as stated: is_on_at reads the cell of the instant as converted to the
\* window's timezone, so datetimes that denote the same instant with
\* different UTC offsets get the same answer (stated for the windows that
\* have no working-day function).
C2_QueryInWindowTimezone ==
  (ret.op = "is_on_at" /\ wins[ret.self].pytz # None /\ wins[ret.self].fun = None) =>
    /\ ret.val.on = Cell(Grid(ret.self), AsTimezone(ret.args[1], wins[ret.self].pytz))
    /\ \A dt \in Datetimes :
         dt.utc = ret.args[1].utc =>
           is_on_at(wins[ret.self], Grid(ret.self), dt).on = ret.val.on

\* C6: when a working-day function is set and returns false for the queried
\* datetime, is_on_at answers false without looking up the grid, whatever
\* the grid holds; otherwise the answer is the grid cell of the datetime.
C6_WorkingDayGating ==
  ret.op = "is_on_at" =>
    IF wins[ret.self].fun # None /\ ~CallFun(wins[ret.self].fun, ret.args[1])
    THEN ret.val.on = FALSE /\ ~ret.val.read
    ELSE ret.val.on = Cell(Grid(ret.self), ret.args[1]) /\ ret.val.read

\* C6 witness: a window over the all-true grid whose working-day function
\* rejected the datetime answered false.
C6_Witness ==
  /\ ret.op = "is_on_at"
  /\ Grid(ret.self) = OnesGrid
  /\ wins[ret.self].fun = "lambda_false"
  /\ ret.val.on = FALSE

---------------------------------------------------------------------------
(* Claims about the life of the windows (Spec) *)

\* C8 as stated: invert(W) succeeds for any window W, with or without a
\* timezone, and returns a window over the complement of W's grid, with W's
\* timezone and no working-day function.
C8_InvertAnyWindow ==
  ret.op = "invert" =>
    /\ ret.status = "ok"
    /\ Grid(ret.val) = Negated(Grid(ret.args[1]))
    /\ wins[ret.val].tz = wins[ret.args[1]].tz
    /\ wins[ret.val].fun = None

\* what a window shows: its grid, its timezone, its working-day function
ShownNow(w) == <<bufs[wins[w].buf], wins[w].tz, wins[w].fun>>

ShownNext(w) == <<bufs'[wins'[w].buf], wins'[w].tz, wins'[w].fun>>

InPlaceCalls == {"set_day", "shift_start", "for_timezone", "with_working_days_calendar"}

\* C9 as stated: clone() returns a window equal to the original (grid,
\* timezone, working-day function), and afterwards a day setter, shift_start,
\* for_timezone or with_working_days_calendar on one of the two leaves the
\* other as it was.
C9_CloneEqualAndIndependent ==
  [][/\ (steps' # steps /\ ret'.op = "clone") =>
          /\ ret'.status = "ok"
          /\ ShownNext(ret'.val) = ShownNow(ret'.self)
          /\ ShownNext(ret'.self) = ShownNow(ret'.self)
     /\ (steps' # steps /\ ret'.op \in InPlaceCalls) =>
          \A p \in clones :
             /\ ret'.self = p[1] => ShownNext(p[2]) = ShownNow(p[2])
             /\ ret'.self = p[2] => ShownNext(p[1]) = ShownNow(p[1])]_vars

\* C10 as stated: whatever for_timezone calls were made, failed ones
\* included, the timezone a window reports is unset or resolvable, and it is
\* the identifier of the converter the window holds.
C10_TimezoneAlwaysValid ==
  \A w \in Windows :
     /\ wins[w].tz = None \/ Resolvable(wins[w].tz)
     /\ wins[w].pytz = wins[w].tz

\* C15 as stated: a window that from_raw built from a dense grid owns its
\* grid: a day setter or shift_start on it leaves the grid it was built
\* from, and so the grid of every window built before it, as it was.
C15_FromRawArrayIsFresh ==
  [][(steps' # steps /\ ret'.op \in {"set_day", "shift_start"}) =>
        \A w \in 1 .. (ret'.self - 1) : bufs'[wins'[w].buf] = bufs[wins[w].buf]]_vars

---------------------------------------------------------------------------
(* Fluent building: a window is built, may get a working-day function or   *)
(* a first day, and then one of its days is set to any small day schedule. *)

\* Weekday2D written as a tuple of one slot
Wrapped3D == Day3D(<<Slot(<<1, 0>>, <<HoursPerDay - 1, 0>>)>>)

\* a minute outside the hour, which the range assertions let through
Overflow2D == Day2D(<<1, MinutesPerHour + 1>>, <<HoursPerDay, 0>>)

\* any single slot, any one or two short slots in any order (touching and
\* overlapping ones included), and day schedules the setter rejects or
\* should reject
FluentDays ==
  {Day2D(sl[1], sl[2]) : sl \in CanonSlots}
    \cup {Day3D(q) : q \in SeqsUpTo(ShortSlots, 2)}
    \cup {Wrapped3D, Night3D, Reversed2D, Overflow2D}

NextFluent ==
  \/ steps = 0 /\ Construct
  \/ steps = 0 /\ Always
  \/ steps = 0 /\ FromRawDict(ComplexSchedule, "Europe/Paris")
  \/ steps = 1 /\ \E c \in CalendarInputs : WithWorkingDaysCalendar(1, c)
  \/ steps = 1 /\ \E d \in Days, s \in SampleDays : SetDay(1, d, s)
  \/ steps = 2 /\ \E d \in Days, s \in FluentDays : SetDay(1, d, s)

SpecFluent == Init /\ [][NextFluent]_vars

\* the cells of a day that lie in [start, end) of one of the slots
EncodedDay(day_sched) ==
  [c \in Cells |-> \E i \in 1 .. Len(day_sched.slots) : InSlot(c, day_sched.slots[i])]

\* mapping m with the entry of `day` replaced by (or extended with) entry
WithDay(m, day, entry) ==
  [d \in DOMAIN m \cup {day} |-> IF d = day THEN entry ELSE m[d]]

\* the step is a day setter called with a valid day schedule
SetterStep == steps' # steps /\ ret'.op = "set_day" /\ ValidDay(ret'.args[2])

\* the setter returned the window, the day holds the encoding of the
\* schedule and nothing else, the other days and the window's timezone,
\* converter and working-day function are as they were
SetterEffect ==
  /\ ret'.status = "ok"
  /\ ret'.val = ret'.self
  /\ wins'[ret'.self] = wins[ret'.self]
  /\ bufs'[wins[ret'.self].buf][ret'.args[1]] = EncodedDay(ret'.args[2])
  /\ \A d \in Days \ {ret'.args[1]} :
        bufs'[wins[ret'.self].buf][d] = bufs[wins[ret'.self].buf][d]

\* the mapping the window shows after the setter is the one it showed
\* before with {day: schedule} put in
SetterMapping ==
  format_schedule(bufs'[wins[ret'.self].buf])
    = WithDay(format_schedule(bufs[wins[ret'.self].buf]),
              ret'.args[1], CanonDay(ret'.args[2]))

\* C11 as stated: a day setter called with a valid day schedule replaces
\* that day's cells by the encoding of the schedule (nothing of the old day
\* is kept), leaves the other days, the timezone and the working-day
\* function unchanged and returns the window, so that a chain of setters
\* shows the mapping {day: schedule} of the days set, whatever valid
\* schedule was given.
C11_SetterYieldsMapping ==
  [][SetterStep => (SetterEffect /\ SetterMapping)]_vars

\* C11 amended: the same effect on the grid, the timezone, the working-day
\* function and the returned window for every valid day schedule; the
\* mapping shown after a chain of setters is {day: schedule} for the
\* schedules whose slots are in increasing order with at least one minute
\* between a slot and the next.
C11_SetterYieldsSeparatedMapping ==
  [][SetterStep => (SetterEffect /\ (SeparatedDay(ret'.args[2]) => SetterMapping))]_vars

\* C11 witness: on a window with a working-day function, a setter replaced
\* a day that was all true by a day of two slots, and the window shows the
\* two slots for that day.
C11_Witness ==
  /\ ret.op = "set_day" /\ ret.status = "ok"
  /\ ValidDay(ret.args[2]) /\ SeparatedDay(ret.args[2])
  /\ Len(ret.args[2].slots) = 2
  /\ AllDay(ret.args[3][ret.args[1]])
  /\ wins[ret.self].fun # None
  /\ Grid(ret.self)[ret.args[1]] = EncodedDay(ret.args[2])
  /\ format_schedule(Grid(ret.self))[ret.args[1]] = ret.args[2]

---------------------------------------------------------------------------
(* from_to on every range of days and every single-slot day schedule,      *)
(* endpoints in range or not: from_to is called once.                      *)

RangeDays ==
  {Day2D(s, e) : s \in Endpoints, e \in Endpoints}
    \cup SampleDays
    \cup {Wrapped3D, [ndim |-> 1, slots |-> <<>>]}

NextRange ==
  /\ steps = 0
  /\ \E a \in Days, b \in Days, s \in RangeDays : FromTo(a, b, s)

SpecRange == Init /\ [][NextRange]_vars

\* {d: day_sched for d in day_start..day_end}
RangeMapping(day_start, day_end, day_sched) ==
  [d \in {x \in Days : day_start <= x /\ x <= day_end} |-> day_sched]

\* the last call was from_to on a non-empty range and it returned a window
FromToReturned ==
  ret.op = "from_to" /\ ret.status = "ok" /\ ret.args[1] <= ret.args[2]

\* what __eq__ compares
Shown(s, g) == <<g, s.tz, s.fun>>

\* C12 as stated: the window from_to returns has no timezone, shares its
\* grid with no other window, holds the encoding of the day schedule on
\* every day of the range and nothing on the other days; after
\* for_timezone(tz) it equals from_raw of the mapping {d: day schedule} over
\* the range with tz; is_defined_for_day is true exactly on the days of the
\* range.
C12_FromToIsFromRawOverRange ==
  FromToReturned =>
    /\ wins[ret.val].tz = None
    /\ \A w \in Windows \ {ret.val} : wins[w].buf # wins[ret.val].buf
    /\ \A d \in Days :
          Grid(ret.val)[d] = IF ret.args[1] <= d /\ d <= ret.args[2]
                             THEN EncodedDay(ret.args[3]) ELSE ZerosDay
    /\ \A tz \in KnownZones :
          /\ FromRawStatus(RangeMapping(ret.args[1], ret.args[2], ret.args[3]), tz) = "ok"
          /\ Shown(for_timezone(wins[ret.val], tz), Grid(ret.val))
               = Shown(for_timezone(NewWindow(0), tz),
                       to_matrix(RangeMapping(ret.args[1], ret.args[2], ret.args[3])).grid)
    /\ \A d \in Days :
          is_defined_for_day(Grid(ret.val), d) = (ret.args[1] <= d /\ d <= ret.args[2])

---------------------------------------------------------------------------
(* Decoding on every small grid: a window over a grid of DecodeGrids (as   *)
(* from_raw builds from a dense grid) is formatted, and the mapping it     *)
(* shows is given back to from_raw.                                        *)

\* one day is any vector, the other days are all false, all true or nights
DecodeGrids ==
  {[d \in Days |-> IF d = k THEN v ELSE u] :
     k \in Days, v \in DayVectors, u \in {ZerosDay, OnesDay, to_vector(Night3D).slots}}

InitDecode ==
  /\ \E g \in DecodeGrids : bufs = <<g>>
  /\ wins = <<for_timezone(NewWindow(1), "UTC")>>
  /\ ret = Ret("none", 0, <<>>, "ok", 0)
  /\ steps = 0
  /\ clones = {}

NextDecode ==
  \/ steps = 0 /\ FormatSchedule(1)
  \/ steps = 1 /\ FromRawDict(ret.val, "UTC")

SpecDecode == InitDecode /\ [][NextDecode]_vars

\* the edge positions an entry of the mapping stands for: start and end of
\* its slots, one after the other, as minutes of the day
EdgesOf(entry) ==
  [i \in 1 .. (2 * Len(entry.slots)) |->
     StartIdx(entry.slots[(i + 1) \div 2][IF i % 2 = 1 THEN 1 ELSE 2])]

\* the edges are within 0..1440, strictly increasing, written with the
\* minute inside the hour, and none of the positions found in the day was
\* left out of the pairs
EdgesWellFormed(entry, v) ==
  /\ entry.slots # <<>>
  /\ \A i \in 1 .. Len(entry.slots) :
        entry.slots[i][1] \in CanonEndpoints /\ entry.slots[i][2] \in CanonEndpoints
  /\ \A i \in 1 .. (2 * Len(entry.slots)) :
        0 <= EdgesOf(entry)[i] /\ EdgesOf(entry)[i] <= DayLen
  /\ \A i \in 1 .. (2 * Len(entry.slots) - 1) : EdgesOf(entry)[i] < EdgesOf(entry)[i + 1]
  /\ Len(SlotIndexes(v)) % 2 = 0
  /\ EdgesOf(entry) = SlotIndexes(v)

\* C14: for a grid with a true cell, format_schedule has a key exactly for
\* the days with a true cell, each entry being an even number of edges that
\* alternate start and end in strictly increasing order within 0..1440, and
\* to_matrix of the mapping (as from_raw builds it) is the grid cell for
\* cell, runs from minute 0 or up to minute 1440 included.
C14_DecodeInvertsEncode ==
  /\ (ret.op = "format_schedule" /\ AnyGrid(Grid(ret.self))) =>
        /\ DOMAIN ret.val = {d \in Days : AnyDay(Grid(ret.self)[d])}
        /\ \A d \in DOMAIN ret.val : EdgesWellFormed(ret.val[d], Grid(ret.self)[d])
        /\ to_matrix(ret.val).err = "none"
        /\ to_matrix(ret.val).grid = Grid(ret.self)
  /\ (ret.op = "from_raw" /\ AnyGrid(Grid(1))) =>
        /\ ret.status = "ok"
        /\ Grid(ret.val) = Grid(1)

\* C14 witness: a day with a run from minute 0 and a run up to minute 1440
\* was shown as two slots, and from_raw of the mapping built the same grid.
C14_Witness ==
  /\ ret.op = "from_raw" /\ ret.status = "ok"
  /\ \E d \in DOMAIN ret.args[1] :
        /\ Len(ret.args[1][d].slots) = 2
        /\ Grid(1)[d][0] /\ Grid(1)[d][DayLen - 1]
  /\ \E d \in Days : d \notin DOMAIN ret.args[1]
  /\ Grid(ret.val) = Grid(1)

====
